---- MODULE Spec2Model ----
(***************************************************************************)
(* Model of the parser-combinator engine of src/parser.py: Token,          *)
(* Sequence and Switch with their parse / fullparse methods, _safecall,    *)
(* Sequence.flattern and Switch.add / Switch.remove.                       *)
(*                                                                         *)
(* A call is one action: it evaluates the whole method (every nested call  *)
(* it makes included) and stores what the caller observes in `result`.     *)
(*                                                                         *)
(* Python values are records with a field t:                               *)
(*   [t |-> "None"]                 None                                   *)
(*   [t |-> "str", txt |-> chars]   a string                               *)
(*   [t |-> "unit"]                 the empty tuple ()                     *)
(*   [t |-> "pair", by, v]          the tuple (structure, tuple v)         *)
(*                                                                         *)
(* src/parser.py lines 201, 217 and 218 lack the operator between the      *)
(* string literal and repr(self); the model reads them as the intended     *)
(* string concatenation and keeps every other token of the statement.      *)
(***************************************************************************)
EXTENDS Integers, Sequences, FiniteSets, TLC

MaxLen == 2

Alphabet == {"a", "b"}

Sources == UNION {[1..n -> Alphabet] : n \in 0..MaxLen}

VARIABLES source, start, end, switches, op, target, operand, result

vars == <<source, start, end, switches, op, target, operand, result>>

----------------------------------------------------------------------------
(* Values *)

None == [t |-> "None"]

Unit == [t |-> "unit"]

Str(txt) == [t |-> "str", txt |-> txt]

Pair(s, v) == [t |-> "pair", by |-> s, v |-> v]

----------------------------------------------------------------------------
(* Structures: what bind() stores *)

Token(pattern, mapper) ==
    [kind |-> "Token", pattern |-> pattern, seqs |-> <<>>, mapper |-> mapper,
     flattern |-> FALSE, allow_nomatch |-> FALSE]

placeholder(pattern) == Token(pattern, "none")

Sequence(args, mapper, flattern) ==
    [kind |-> "Sequence", pattern |-> <<>>, seqs |-> args, mapper |-> mapper,
     flattern |-> flattern, allow_nomatch |-> FALSE]

Switch(args, mapper, allow_nomatch) ==
    [kind |-> "Switch", pattern |-> <<>>, seqs |-> args, mapper |-> mapper,
     flattern |-> FALSE, allow_nomatch |-> allow_nomatch]

(* The structures the calls are made on.  A structure is named by its      *)
(* index; children have smaller indices than their parent.                 *)
Structs == <<
    Token(<<"a">>, "default"),                 \*  1
    Token(<<"b">>, "default"),                 \*  2
    Token(<<"a", "b">>, "group0"),             \*  3
    placeholder(<<"a">>),                      \*  4
    placeholder(<<>>),                         \*  5
    Token(<<"a">>, "raise"),                   \*  6
    Token(<<"a">>, "raiseFatal"),              \*  7
    Token(<<"b">>, "unit"),                    \*  8
    Token(<<"b">>, "raiseNotMatch"),           \*  9
    Sequence(<<1, 2>>, "default", FALSE),      \* 10
    Sequence(<<1, 3>>, "default", TRUE),       \* 11
    Sequence(<<11, 4, 1>>, "default", FALSE),  \* 12
    Sequence(<<1, 3>>, "default", FALSE),      \* 13
    Sequence(<<13, 1>>, "default", FALSE),     \* 14
    Sequence(<<1>>, "raise", FALSE),           \* 15
    Sequence(<<2, 8>>, "default", FALSE),      \* 16
    Sequence(<<5, 1, 2>>, "default", FALSE),   \* 17
    Switch(<<3, 1>>, "default", FALSE),        \* 18
    Switch(<<1, 3>>, "default", FALSE),        \* 19
    Switch(<<2>>, "default", TRUE),            \* 20
    Switch(<<7, 1>>, "default", FALSE),        \* 21
    Switch(<<2>>, "default", FALSE),           \* 22
    Switch(<<22, 1>>, "default", FALSE),       \* 23
    Switch(<<10, 1>>, "default", FALSE),       \* 24
    Switch(<<9, 2>>, "default", TRUE),         \* 25
    Switch(<<2, 1>>, "raise", FALSE),          \* 26
    Switch(<<11, 2>>, "default", FALSE),       \* 27
    Sequence(<<27, 1>>, "default", FALSE),     \* 28
    Switch(<<6, 1>>, "default", TRUE),         \* 29
    Switch(<<2, 3>>, "raiseFatal", TRUE)       \* 30
>>

Ids == 1..Len(Structs)

Tokens == {s \in Ids : Structs[s].kind = "Token"}

Sequences == {s \in Ids : Structs[s].kind = "Sequence"}

Switches == {s \in Ids : Structs[s].kind = "Switch"}

(* Structures handed to Switch.add / Switch.remove *)
Operands == {1, 2, 3}

----------------------------------------------------------------------------
(* Results: what a call gives its caller                                   *)
(*   ok      a (value, position) pair was returned                         *)
(*   kind    "ok", or the class of the exception raised                    *)
(*   pos     next_start on success, the exception's position attribute on  *)
(*           a ParserException, -1 for an exception that carries none      *)
(*   by      the structure whose method returned or raised                 *)
(*   calls   the child calls this method made, in order                    *)
(*   mcall   the structure's own mapper was invoked                        *)
(*   arg     the data handed to that mapper                                *)
(*   matched the alternative a Switch handed to its mapper, else 0         *)

Returned(s, val, pos, calls, mcall, arg, matched) ==
    [ok |-> TRUE, kind |-> "ok", val |-> val, pos |-> pos, msg |-> "",
     by |-> s, calls |-> calls, mcall |-> mcall, arg |-> arg,
     matched |-> matched]

Raised(s, kind, msg, pos, calls, mcall, arg, matched) ==
    [ok |-> FALSE, kind |-> kind, val |-> None, pos |-> pos, msg |-> msg,
     by |-> s, calls |-> calls, mcall |-> mcall, arg |-> arg,
     matched |-> matched]

ParserNotMatchException(s, msg, position) ==
    Raised(s, "NotMatch", msg, position, <<>>, FALSE, <<>>, 0)

ParserFatalException(s, msg, position) ==
    Raised(s, "Fatal", msg, position, <<>>, FALSE, <<>>, 0)

(* The record a caller keeps of one child call *)
CallRec(c, meth, at, r) ==
    [s |-> c, meth |-> meth, at |-> at, ok |-> r.ok, kind |-> r.kind,
     val |-> r.val, pos |-> r.pos, msg |-> r.msg, by |-> r.by]

----------------------------------------------------------------------------
(* Mappers.  A mapper is supplied by the grammar author; the kinds below    *)
(* are the ones the calls are made with.  The outcome is the value          *)
(* returned or the class of the exception raised.                           *)
(*   "default"        the default of the structure's bind()                 *)
(*   "none"           lambda m,t: None            (placeholder)             *)
(*   "group0"         lambda m,t: m.group(0)                                *)
(*   "unit"           returns the empty tuple                               *)
(*   "raise"          raises ValueError                                     *)
(*   "raiseFatal"     raises ParserFatalException(msg, source, start)       *)
(*   "raiseNotMatch"  raises ParserNotMatchException(msg, source, start)    *)

MapperCall(s, args) ==
    LET mk == Structs[s].mapper
        kind == Structs[s].kind
    IN  CASE mk = "default" /\ kind = "Token" ->
                [raised |-> "none", val |-> Pair(s, <<>>)]
          [] mk = "default" /\ kind = "Sequence" ->
                [raised |-> "none", val |-> Pair(s, args)]
          [] mk = "default" /\ kind = "Switch" ->
                [raised |-> "none", val |-> args[1]]
          [] mk = "none" -> [raised |-> "none", val |-> None]
          [] mk = "group0" -> [raised |-> "none", val |-> args[1]]
          [] mk = "unit" -> [raised |-> "none", val |-> Unit]
          [] mk = "raiseFatal" -> [raised |-> "Fatal", val |-> None]
          [] mk = "raiseNotMatch" -> [raised |-> "NotMatch", val |-> None]
          [] OTHER -> [raised |-> "ValueError", val |-> None]

(* _safecall(self._mapper, ...) and the return statement around it.  A      *)
(* ParserException of the mapper is re-raised as it is.  For any other      *)
(* exception the handler evaluates ParserFatalException(str(exc), source,   *)
(* start), and neither source nor start is a name _safecall can see, so     *)
(* that expression raises NameError.                                        *)
safecall(s, args, st, next_pos, calls, matched) ==
    LET m == MapperCall(s, args)
    IN  CASE m.raised = "none" ->
                Returned(s, m.val, next_pos, calls, TRUE, args, matched)
          [] m.raised \in {"NotMatch", "Fatal"} ->
                Raised(s, m.raised, "mapper", st, calls, TRUE, args, matched)
          [] OTHER ->
                Raised(s, "NameError", "name 'source' is not defined", -1,
                       calls, TRUE, args, matched)

----------------------------------------------------------------------------
(* Token *)

(* self._pattern.match(source, start, end): the pattern is a literal; it    *)
(* matches at st when its characters are there and none lies past end.      *)
Match(pattern, st) ==
    /\ st + Len(pattern) <= end
    /\ \A i \in 1..Len(pattern) : source[st + i] = pattern[i]

(* Token.parse raising the fatal kind when the pattern does not match *)
Token_parse_fatal(s, st) ==
    LET pattern == Structs[s].pattern
    IN  IF ~Match(pattern, st)
        THEN ParserFatalException(s, "cannot match", st)
        ELSE safecall(s, <<Str(pattern)>>, st, st + Len(pattern), <<>>, 0)

Token_parse(s, st) ==
    LET pattern == Structs[s].pattern
    IN  IF ~Match(pattern, st)
        THEN ParserNotMatchException(s, "cannot match", st)
        ELSE safecall(s, <<Str(pattern)>>, st, st + Len(pattern), <<>>, 0)

(* Structure.fullparse reporting the position parse stopped at *)
Structure_fullparse_at_stop(s, st) ==
    LET r == Token_parse(s, st)
    IN  IF ~r.ok THEN r
        ELSE IF r.pos # end
        THEN ParserFatalException(s, "extra unparsed data", r.pos)
        ELSE r

(* Structure.fullparse, which Token inherits *)
Structure_fullparse(s, st) ==
    LET r == Token_parse(s, st)
    IN  IF ~r.ok THEN r
        ELSE IF r.pos # end
        THEN ParserFatalException(s, "extra unparsed data", end)
        ELSE r

----------------------------------------------------------------------------
(* Dispatch of structure.parse / structure.fullparse on the class *)

RECURSIVE Parse(_, _, _)
RECURSIVE Sequence_parse_loop(_, _, _, _, _, _)
RECURSIVE Switch_parse_loop(_, _, _, _)
RECURSIVE Switch_fullparse_loop(_, _, _, _)
RECURSIVE flattern(_)

----------------------------------------------------------------------------
(* Sequence *)

(* flattern ignoring the flag: every value is kept as one element *)
flattern_nosplice(value) == value

(* Sequence.flattern: the result of a flattern-bound Sequence, the tuple    *)
(* (sequence, values), is replaced by its values; anything else is kept.    *)
flattern(value) ==
    IF value = <<>> THEN <<>>
    ELSE LET v == Head(value)
         IN  (IF v.t = "pair" /\ Structs[v.by].kind = "Sequence"
                               /\ Structs[v.by].flattern
              THEN v.v ELSE <<v>>) \o flattern(Tail(value))

(* v[0] of an empty tuple: flattern raises IndexError *)
flattern_raises(value) == \E i \in 1..Len(value) : value[i].t = "unit"

(* return (_safecall(self._mapper, self.flattern(return_obj), self), next_pos) *)
Sequence_return(s, st, next_pos, return_obj, calls) ==
    IF flattern_raises(return_obj)
    THEN Raised(s, "IndexError", "tuple index out of range", -1, calls,
                FALSE, <<>>, 0)
    ELSE safecall(s, flattern(return_obj), st, next_pos, calls, 0)

(* An exception of a child leaving the method that made the call *)
Propagate(r, calls) ==
    [r EXCEPT !.calls = calls, !.mcall = FALSE, !.arg = <<>>, !.matched = 0]

(* One turn of the for loop of Sequence.parse: r is what                    *)
(* structure.parse(source, start, end) gave for child i.                    *)
Sequence_parse_step(s, i, st, return_obj, calls, r) ==
    IF ~r.ok
    THEN Propagate(r, Append(calls, CallRec(Structs[s].seqs[i], "parse", st, r)))
    ELSE Sequence_parse_loop(s, i + 1, st, r.pos,
             IF r.val.t # "None" THEN Append(return_obj, r.val)
                                 ELSE return_obj,
             Append(calls, CallRec(Structs[s].seqs[i], "parse", st, r)))

(* The for loop of Sequence.parse from child i on.  Line 130 hands every    *)
(* child the sequence's own start; next_pos only keeps the last child's     *)
(* return.                                                                  *)
Sequence_parse_loop(s, i, st, next_pos, return_obj, calls) ==
    IF i > Len(Structs[s].seqs)
    THEN Sequence_return(s, st, next_pos, return_obj, calls)
    ELSE Sequence_parse_step(s, i, st, return_obj, calls,
                             Parse(Structs[s].seqs[i], "parse", st))

Sequence_parse(s, st) == Sequence_parse_loop(s, 1, st, st, <<>>, <<>>)

(* No Structure defines __iter__ or __getitem__ *)
Iterable(structure) == FALSE

(* Lines 142-145 of Sequence.fullparse: r is what                           *)
(* self._seqs[-1].fullparse(source, start, end) gave.                       *)
Sequence_fullparse_last(s, st, last, r) ==
    IF ~r.ok
    THEN Propagate(r, <<CallRec(last, "fullparse", st, r)>>)
    ELSE Sequence_return(s, st, r.pos,
             IF r.val.t # "None" THEN <<r.val>> ELSE <<>>,
             <<CallRec(last, "fullparse", st, r)>>)

(* Sequence.fullparse: line 138 iterates over self._seqs[-1], the last      *)
(* child itself, which raises TypeError before any child is called.         *)
Sequence_fullparse(s, st) ==
    IF ~Iterable(Structs[s].seqs[Len(Structs[s].seqs)])
    THEN Raised(s, "TypeError", "object is not iterable", -1, <<>>,
                FALSE, <<>>, 0)
    ELSE Sequence_fullparse_last(s, st, Structs[s].seqs[Len(Structs[s].seqs)],
             Parse(Structs[s].seqs[Len(Structs[s].seqs)], "fullparse", st))

----------------------------------------------------------------------------
(* Switch *)

(* raise ParserNotMatchException(message, source, start, end): the          *)
(* constructor ParserException.__init__(self, message, source, position)    *)
(* takes three arguments and is given four, so the call raises TypeError    *)
(* and no ParserNotMatchException is made.                                  *)
Switch_nomatch(s, calls) ==
    Raised(s, "TypeError", "__init__() takes 4 positional arguments", -1,
           calls, FALSE, <<>>, 0)

(* Switch.parse without the break: a later alternative that matches too    *)
(* replaces the earlier one.                                                *)
Switch_parse_step_nobreak(s, i, st, calls, r) ==
    LET calls2 == Append(calls, CallRec(switches[s][i], "parse", st, r))
        later == Switch_parse_loop(s, i + 1, st, calls2)
    IN  IF r.ok
        THEN IF later.mcall THEN later
             ELSE safecall(s, <<r.val>>, st, r.pos, calls2, switches[s][i])
        ELSE IF r.kind = "NotMatch" THEN later
        ELSE Propagate(r, calls2)

(* One turn of the for loop of Switch.parse: r is what                      *)
(* s.parse(source, start, end) gave for alternative i.  A                   *)
(* ParserNotMatchException goes on to the next alternative, a return        *)
(* breaks to the return statement, any other exception leaves the method.   *)
Switch_parse_step(s, i, st, calls, r) ==
    IF r.ok
    THEN safecall(s, <<r.val>>, st, r.pos,
                  Append(calls, CallRec(switches[s][i], "parse", st, r)),
                  switches[s][i])
    ELSE IF r.kind = "NotMatch"
    THEN Switch_parse_loop(s, i + 1, st,
             Append(calls, CallRec(switches[s][i], "parse", st, r)))
    ELSE Propagate(r, Append(calls, CallRec(switches[s][i], "parse", st, r)))

(* The for loop of Switch.parse from alternative i on, and its else clause  *)
Switch_parse_loop(s, i, st, calls) ==
    IF i > Len(switches[s])
    THEN IF Structs[s].allow_nomatch
         THEN Returned(s, None, st, calls, FALSE, <<>>, 0)
         ELSE Switch_nomatch(s, calls)
    ELSE Switch_parse_step(s, i, st, calls, Parse(switches[s][i], "parse", st))

Switch_parse(s, st) == Switch_parse_loop(s, 1, st, <<>>)

(* Switch.fullparse catching ParserException instead of                    *)
(* ParserNotMatchException: a fatal failure is skipped like a no-match.     *)
Switch_fullparse_step_catchall(s, i, st, calls, r) ==
    IF r.ok
    THEN safecall(s, <<r.val>>, st, r.pos,
                  Append(calls, CallRec(switches[s][i], "fullparse", st, r)),
                  switches[s][i])
    ELSE IF r.kind \in {"NotMatch", "Fatal"}
    THEN Switch_fullparse_loop(s, i + 1, st,
             Append(calls, CallRec(switches[s][i], "fullparse", st, r)))
    ELSE Propagate(r, Append(calls, CallRec(switches[s][i], "fullparse", st, r)))

(* One turn of the for loop of Switch.fullparse *)
Switch_fullparse_step(s, i, st, calls, r) ==
    IF r.ok
    THEN safecall(s, <<r.val>>, st, r.pos,
                  Append(calls, CallRec(switches[s][i], "fullparse", st, r)),
                  switches[s][i])
    ELSE IF r.kind = "NotMatch"
    THEN Switch_fullparse_loop(s, i + 1, st,
             Append(calls, CallRec(switches[s][i], "fullparse", st, r)))
    ELSE Propagate(r, Append(calls, CallRec(switches[s][i], "fullparse", st, r)))

(* The for loop of Switch.fullparse from alternative i on, and its else     *)
(* clause                                                                   *)
Switch_fullparse_loop(s, i, st, calls) ==
    IF i > Len(switches[s])
    THEN IF Structs[s].allow_nomatch
         THEN IF st = end
              THEN Returned(s, None, st, calls, FALSE, <<>>, 0)
              ELSE Switch_nomatch(s, calls)
         ELSE Switch_nomatch(s, calls)
    ELSE Switch_fullparse_step(s, i, st, calls,
                               Parse(switches[s][i], "fullparse", st))

Switch_fullparse(s, st) == Switch_fullparse_loop(s, 1, st, <<>>)

Parse(s, meth, st) ==
    CASE Structs[s].kind = "Token" /\ meth = "parse" -> Token_parse(s, st)
      [] Structs[s].kind = "Token" /\ meth = "fullparse" ->
            Structure_fullparse(s, st)
      [] Structs[s].kind = "Sequence" /\ meth = "parse" -> Sequence_parse(s, st)
      [] Structs[s].kind = "Sequence" /\ meth = "fullparse" ->
            Sequence_fullparse(s, st)
      [] Structs[s].kind = "Switch" /\ meth = "parse" -> Switch_parse(s, st)
      [] OTHER -> Switch_fullparse(s, st)

(* structure in self._switches *)
In(structure, alternatives) ==
    \E i \in 1..Len(alternatives) : alternatives[i] = structure

(* Switch.add: bind() keeps its *args, a tuple, which has no append *)
Switch_add(s, structure) ==
    IF ~In(structure, switches[s])
    THEN Raised(s, "AttributeError", "'tuple' object has no attribute 'append'",
                -1, <<>>, FALSE, <<>>, 0)
    ELSE Returned(s, None, -1, <<>>, FALSE, <<>>, 0)

(* Switch.remove: a tuple has no remove *)
Switch_remove(s, structure) ==
    Raised(s, "AttributeError", "'tuple' object has no attribute 'remove'",
           -1, <<>>, FALSE, <<>>, 0)

----------------------------------------------------------------------------
(* The state machine *)

Init ==
    /\ source \in Sources
    /\ end \in 0..Len(source)
    /\ start \in 0..end
    /\ switches = [s \in Ids |-> IF s \in Switches THEN Structs[s].seqs ELSE <<>>]
    /\ op = "init"
    /\ target = 0
    /\ operand = 0
    /\ result = Returned(0, None, -1, <<>>, FALSE, <<>>, 0)

Call(name, s, r) ==
    /\ op' = name
    /\ target' = s
    /\ operand' = 0
    /\ result' = r
    /\ UNCHANGED <<source, start, end, switches>>

CallTokenParse == \E s \in Tokens : Call("Token.parse", s, Token_parse(s, start))

CallStructureFullparse ==
    \E s \in Tokens : Call("Structure.fullparse", s, Structure_fullparse(s, start))

CallSequenceParse ==
    \E s \in Sequences : Call("Sequence.parse", s, Sequence_parse(s, start))

CallSequenceFullparse ==
    \E s \in Sequences : Call("Sequence.fullparse", s, Sequence_fullparse(s, start))

CallSwitchParse ==
    \E s \in Switches : Call("Switch.parse", s, Switch_parse(s, start))

CallSwitchFullparse ==
    \E s \in Switches : Call("Switch.fullparse", s, Switch_fullparse(s, start))

(* add and remove leave self._switches as it is on every path *)
CallSwitchAdd ==
    \E s \in Switches, x \in Operands :
        /\ op' = "Switch.add"
        /\ target' = s
        /\ operand' = x
        /\ result' = Switch_add(s, x)
        /\ UNCHANGED <<source, start, end, switches>>

CallSwitchRemove ==
    \E s \in Switches, x \in Operands :
        /\ op' = "Switch.remove"
        /\ target' = s
        /\ operand' = x
        /\ result' = Switch_remove(s, x)
        /\ UNCHANGED <<source, start, end, switches>>

Next ==
    \/ CallTokenParse
    \/ CallStructureFullparse
    \/ CallSequenceParse
    \/ CallSequenceFullparse
    \/ CallSwitchParse
    \/ CallSwitchFullparse
    \/ CallSwitchAdd
    \/ CallSwitchRemove

Spec == Init /\ [][Next]_vars

----------------------------------------------------------------------------
(* Properties *)

ParseOps ==
    {"Token.parse", "Structure.fullparse", "Sequence.parse",
     "Sequence.fullparse", "Switch.parse", "Switch.fullparse"}

(* C1: Sequence.parse threads the cursor: the first child is parsed at      *)
(* start, every later child at the position the child before it returned,   *)
(* and the sequence returns the position of its last child.                 *)
C1_CursorThreaded ==
    op = "Sequence.parse" =>
        LET c == result.calls
        IN  /\ Len(c) >= 1 => c[1].at = start
            /\ \A i \in 2..Len(c) : c[i].at = c[i - 1].pos
            /\ result.ok => result.pos = c[Len(c)].pos

(* C2: Switch.parse is first-match-wins: when alternative k is the first    *)
(* whose parse succeeds (those before it not matching), exactly the         *)
(* alternatives 1..k were attempted, in binding order and all at start,     *)
(* and the result is the mapper applied to k's value with k as the matched  *)
(* structure, at the position k returned.                                   *)
C2_FirstMatchWins ==
    op = "Switch.parse" =>
        LET alts == switches[target]
            c == result.calls
        IN  \A k \in 1..Len(alts) :
                LET r == Parse(alts[k], "parse", start)
                IN  (/\ r.ok
                     /\ \A j \in 1..(k - 1) :
                            Parse(alts[j], "parse", start).kind = "NotMatch")
                    => /\ Len(c) = k
                       /\ \A i \in 1..k : /\ c[i].s = alts[i]
                                          /\ c[i].at = start
                                          /\ c[i].meth = "parse"
                       /\ result.mcall
                       /\ result.matched = alts[k]
                       /\ result.arg = <<r.val>>
                       /\ MapperCall(target, <<r.val>>).raised = "none"
                            => /\ result.ok
                               /\ result.val = MapperCall(target, <<r.val>>).val
                               /\ result.pos = r.pos

(* A Switch.parse that returned its first alternative while a later         *)
(* alternative matches a longer prefix at the same position.                *)
C2_Witness ==
    /\ op = "Switch.parse"
    /\ result.ok
    /\ result.matched = switches[target][1]
    /\ \E j \in 2..Len(switches[target]) :
           LET r == Parse(switches[target][j], "parse", start)
           IN  r.ok /\ r.pos > result.pos

(* C3 as stated: Structure.fullparse returns (value, end) when parse stops  *)
(* at end, and when parse stops at k < end it fails with the fatal "extra   *)
(* unparsed data" whose position is k.                                      *)
C3_ExtraDataAtStop ==
    op = "Structure.fullparse" =>
        LET p == Token_parse(target, start)
        IN  /\ (p.ok /\ p.pos = end)
                => result.ok /\ result.val = p.val /\ result.pos = end
            /\ (p.ok /\ p.pos < end)
                => /\ result.kind = "Fatal"
                   /\ result.msg = "extra unparsed data"
                   /\ result.pos = p.pos

(* C3 amended: as above, but the position the failure reports is end.       *)
C3_ExtraDataAtEnd ==
    op = "Structure.fullparse" =>
        LET p == Token_parse(target, start)
        IN  /\ (p.ok /\ p.pos = end)
                => result.ok /\ result.val = p.val /\ result.pos = end
            /\ (p.ok /\ p.pos < end)
                => /\ result.kind = "Fatal"
                   /\ result.msg = "extra unparsed data"
                   /\ result.pos = end

(* A fullparse whose parse stopped before end *)
C3_Witness ==
    /\ op = "Structure.fullparse"
    /\ result.kind = "Fatal"
    /\ result.msg = "extra unparsed data"
    /\ Token_parse(target, start).ok
    /\ Token_parse(target, start).pos < end

(* C4: Sequence.fullparse calls parse on the children before the last, in   *)
(* order, and fullparse on the last child; when it returns, every child     *)
(* was called and the position returned is end.                             *)
C4_LastChildFullparse ==
    op = "Sequence.fullparse" =>
        LET seqs == Structs[target].seqs
            c == result.calls
        IN  /\ Len(c) >= 1
            /\ Len(c) <= Len(seqs)
            /\ \A i \in 1..Len(c) :
                   /\ c[i].s = seqs[i]
                   /\ c[i].meth = IF i = Len(seqs) THEN "fullparse" ELSE "parse"
            /\ result.ok => Len(c) = Len(seqs) /\ result.pos = end

(* C5: Switch.fullparse with allow_nomatch and no alternative matching      *)
(* returns (None, start) when start = end and fails with a fatal failure    *)
(* when start < end.                                                        *)
C5_AllowNomatchFull ==
    (/\ op = "Switch.fullparse"
     /\ Structs[target].allow_nomatch
     /\ \A i \in 1..Len(switches[target]) :
            Parse(switches[target][i], "fullparse", start).kind = "NotMatch")
    => IF start = end
       THEN result.ok /\ result.val = None /\ result.pos = start
       ELSE result.kind = "Fatal"

(* C6: in Switch.parse and Switch.fullparse, when alternative k fails with  *)
(* a failure that is not a no-match (those before it not matching), no      *)
(* alternative after k is attempted, neither the allow_nomatch fallback nor *)
(* the mapper is taken, and the caller gets k's failure: same kind,         *)
(* message, position and origin.                                            *)
C6_FatalPropagates ==
    op \in {"Switch.parse", "Switch.fullparse"} =>
        LET meth == IF op = "Switch.parse" THEN "parse" ELSE "fullparse"
            alts == switches[target]
            c == result.calls
        IN  \A k \in 1..Len(alts) :
                LET r == Parse(alts[k], meth, start)
                IN  (/\ ~r.ok
                     /\ r.kind # "NotMatch"
                     /\ \A j \in 1..(k - 1) :
                            Parse(alts[j], meth, start).kind = "NotMatch")
                    => /\ Len(c) = k
                       /\ c[k].s = alts[k]
                       /\ ~result.ok
                       /\ ~result.mcall
                       /\ result.kind = r.kind
                       /\ result.msg = r.msg
                       /\ result.pos = r.pos
                       /\ result.by = r.by

(* A Switch.fullparse stopped by the fatal failure of an alternative while  *)
(* the next alternative would have matched the whole input.                 *)
C6_Witness ==
    /\ op = "Switch.fullparse"
    /\ result.kind = "Fatal"
    /\ Len(result.calls) < Len(switches[target])
    /\ Parse(switches[target][Len(result.calls) + 1], "fullparse", start).ok

(* C7: when the mapper of the structure called raises an error that is not  *)
(* a parse failure, the call fails with a ParserFatalException at the       *)
(* structure's start position.                                              *)
C7_MapperErrorWrapped ==
    (/\ op \in ParseOps
     /\ result.mcall
     /\ result.by = target
     /\ MapperCall(target, result.arg).raised \notin {"none", "NotMatch", "Fatal"})
    => result.kind = "Fatal" /\ result.pos = start

(* The values the children after the first contributed: those not None *)
TailVals(c) ==
    LET sel == SelectSeq(SubSeq(c, 2, Len(c)), LAMBDA x : x.val.t # "None")
    IN  [i \in 1..Len(sel) |-> sel[i].val]

(* C8: a parent sequence whose first child is a sequence with the default   *)
(* mapper, its other children tokens: the tuple handed to the parent's      *)
(* mapper is the first child's collected values followed by the other       *)
(* children's values when the first child is bound with flattern=True, and  *)
(* the first child's result as one element followed by them when it is not. *)
C8_FlattenLaw ==
    (/\ op = "Sequence.parse"
     /\ result.mcall
     /\ Structs[Structs[target].seqs[1]].kind = "Sequence"
     /\ Structs[Structs[target].seqs[1]].mapper = "default"
     /\ \A i \in 2..Len(Structs[target].seqs) :
            Structs[Structs[target].seqs[i]].kind = "Token")
    => LET c == result.calls
           v1 == c[1].val
       IN  IF Structs[Structs[target].seqs[1]].flattern
           THEN result.arg = v1.v \o TailVals(c)
           ELSE result.arg = <<v1>> \o TailVals(c)

(* Seq(S1, ..) with S1 = Seq(a, b, flattern=True): S1 collected two values  *)
(* and the parent's tuple holds them and one more as three siblings.        *)
C8_Witness ==
    /\ op = "Sequence.parse"
    /\ result.mcall
    /\ Structs[Structs[target].seqs[1]].kind = "Sequence"
    /\ Structs[Structs[target].seqs[1]].flattern
    /\ Len(result.calls[1].val.v) = 2
    /\ Len(result.arg) = 3
    /\ result.arg[1] = result.calls[1].val.v[1]
    /\ result.arg[2] = result.calls[1].val.v[2]

(* C9 as stated: no parse or fullparse call ends with a recoverable         *)
(* no-match.                                                                *)
C9_NoNotMatchEscapes ==
    op \in ParseOps => result.kind # "NotMatch"

(* C9 amended: a recoverable no-match does reach callers, and only a        *)
(* Switch catches one.  Token.parse raises it at start when its pattern     *)
(* does not match; Sequence.parse passes the no-match of a child on         *)
(* unchanged; a Switch goes on to its next alternative after a no-match,    *)
(* so every attempt before its last one ended with a no-match and what the  *)
(* Switch gives its caller after its last alternative did not match is its  *)
(* own outcome, not the alternative's failure.                              *)
C9_NotMatchCaughtOnlyBySwitch ==
    /\ (op = "Token.parse" /\ ~Match(Structs[target].pattern, start))
        => result.kind = "NotMatch" /\ result.pos = start /\ result.by = target
    /\ op = "Sequence.parse" =>
        LET c == result.calls
        IN  (Len(c) >= 1 /\ c[Len(c)].kind = "NotMatch")
            => /\ result.kind = "NotMatch"
               /\ result.pos = c[Len(c)].pos
               /\ result.msg = c[Len(c)].msg
               /\ result.by = c[Len(c)].by
    /\ op \in {"Switch.parse", "Switch.fullparse"} =>
        LET c == result.calls
        IN  /\ \A i \in 1..(Len(c) - 1) : c[i].kind = "NotMatch"
            /\ (Len(c) >= 1 /\ c[Len(c)].kind = "NotMatch")
                => /\ Len(c) = Len(switches[target])
                   /\ result.by = target
                   /\ ~result.mcall

(* A Sequence.parse that ended with the no-match of its second child *)
C9_Witness ==
    /\ op = "Sequence.parse"
    /\ result.kind = "NotMatch"
    /\ Len(result.calls) = 2
    /\ result.by = Structs[target].seqs[2]

(* C10: after add(S) the call has succeeded and S is an alternative of the  *)
(* switch, whether or not it was one before.                                *)
C10_AddSucceeds ==
    op = "Switch.add" => result.ok /\ In(operand, switches[target])

====
